---- MODULE Spec2Model ----
(***************************************************************************)
(* Model of kkdai/linebot-file (src/main.go): a LINE webhook bot that      *)
(* links a user to Google Drive through an OAuth handshake whose CSRF      *)
(* state and credentials live in Firestore, uploads media into a           *)
(* "LINE Bot Uploads"/YYYY-MM folder hierarchy, lists recent files and     *)
(* revokes the authorization.                                              *)
(*                                                                         *)
(* Every HTTP request runs in its own goroutine (net/http), so handlers    *)
(* for different requests interleave between their blocking calls to       *)
(* Firestore, Google and LINE.  A handler is therefore modelled as a       *)
(* request slot with a program counter and one action per external call.   *)
(* Every external call may fail wherever the code has an error path (or    *)
(* discards the returned error).                                           *)
(***************************************************************************)
EXTENDS Integers, Sequences, FiniteSets, TLC

\* ------------------------------------------------------------------ bounds
NumUsers    == 2   \* LINE user identities
NumSlots    == 2   \* requests handled concurrently
MaxNonce    == 2   \* CSRF nonces generateState hands out in one run
MaxTok      == 2   \* credentials the token endpoint hands out in one run
MaxMonth    == 2   \* calendar months a run spans
MaxNew      == 3   \* Drive items created in one run

Users  == 1..NumUsers
Slots  == 1..NumSlots
Nonces == 1..MaxNonce

NoUser == 0
NoDoc  == [id |-> 0, refresh |-> FALSE]        \* absent Firestore document
Toks   == [id : 1..MaxTok, refresh : BOOLEAN]  \* oauth2.Token (refresh: RefreshToken # "")

\* richMenuConnect / richMenuMain (main.go:48-49); "unset": never linked
Menus  == {"unset", "connect", "main"}

VARIABLES
    states,      \* Firestore collection oauth_states: nonce -> owner (NoUser: no document)
    tokens,      \* Firestore collection user_tokens: documents [user, tok]
    menu,        \* rich menu linked to each user on the LINE platform
    nextNonce,   \* nonces 1..nextNonce-1 have been generated
    nextTok,     \* tokens 1..nextTok-1 have been issued by the token endpoint
    h,           \* request slots of the OAuth callback and of the account commands
    clsErr,      \* the error handed to isGoogleAuthError
    clsOut,      \* its classification: "unset", "AuthRejected", "Other"
    items,       \* Google Drive: the folders and files of every account
    nextId,      \* Drive IDs 1..nextId-1 have been handed out
    month,       \* the calendar month time.Now() falls in
    w,           \* request slots of media messages and of /recent_files
    ev           \* the text message each webhook request is handling

authVars == <<states, tokens, menu, nextNonce, nextTok, h>>
clsVars  == <<clsErr, clsOut>>
drvVars  == <<items, nextId, month, w>>
txtVars  == <<ev>>
otherThanAuth == <<clsVars, drvVars, txtVars>>
otherThanCls  == <<authVars, drvVars, txtVars>>
otherThanDrv  == <<authVars, clsVars, txtVars>>

\* --------------------------------------------------------------- errors
\* An error value as the code inspects it: whether its chain holds a
\* *googleapi.Error (errors.As) and with which status, whether it is the
\* sentinel ErrOauth2TokenNotFound (errors.Is), and its message text as a
\* sequence of characters.
InvalidGrant == <<"i","n","v","a","l","i","d","_","g","r","a","n","t">>
PatLen == 13   \* the 13 of errorStr[i:i+13]              main.go:750-751

NilErr == [tag |-> "nil", code |-> 0, msg |-> <<>>]
ApiErr(c, m)  == [tag |-> "api", code |-> c, msg |-> m]
PlainErr(m)   == [tag |-> "plain", code |-> 0, msg |-> m]
\* ErrOauth2TokenNotFound = errors.New("oauth2 token not found")  main.go:42
NotFoundText == <<"n","o","t"," ","f","o","u","n","d">>
ErrOauth2TokenNotFound == [tag |-> "notfound", code |-> 0, msg |-> NotFoundText]

\* fmt.Errorf("...: %w", err): the chain is kept, the text gets a prefix
\*                                           main.go:509, 529, 554, 582
WrapPrefix == <<"w", ":">>
Wrap(e) == [e EXCEPT !.msg = WrapPrefix \o @]

\* the scan of isGoogleAuthError that misses a match at the very end
RECURSIVE ScanStopsEarly(_, _)
ScanStopsEarly(str, i) ==
    IF i >= Len(str) - PatLen THEN FALSE
    ELSE IF SubSeq(str, i + 1, i + PatLen) = InvalidGrant THEN TRUE
    ELSE ScanStopsEarly(str, i + 1)

\* for i := 0; i <= len(errorStr)-13; i++ { if errorStr[i:i+13] ==
\* "invalid_grant" { return true } }                     main.go:750-754
RECURSIVE Scan(_, _)
Scan(str, i) ==
    IF i > Len(str) - PatLen THEN FALSE
    ELSE IF SubSeq(str, i + 1, i + PatLen) = InvalidGrant THEN TRUE
    ELSE Scan(str, i + 1)

\* isGoogleAuthError                                      main.go:738-758
IsGoogleAuthError(e) ==
    IF e.tag = "api" THEN e.code = 401 \/ e.code = 403
    ELSE IF e.tag # "nil" THEN Scan(e.msg, 0)
    ELSE FALSE

\* ------------------------------------------------------- Firestore stores
\* a Set that records the first user as owner, whoever sent the command
PutStateFirstUser(store, n, u) == [store EXCEPT ![n] = 1]

\* Collection(stateCollection).Doc(state).Set(...)           main.go:124, 323
PutState(store, n, u) == [store EXCEPT ![n] = u]

\* doc.Ref.Delete(ctx) on an oauth_states document            main.go:461
DeleteState(store, n) == [store EXCEPT ![n] = NoUser]

\* a read that takes the first user for the owner of every state document
StateOwnerFirst(store, n) == 1

\* doc.DataTo(&stateData); userID := stateData.UserID        main.go:463-471
StateOwner(store, n) == store[n]

\* the credentials stored for user u
CredsOf(store, u) == {d.tok : d \in {e \in store : e.user = u}}

\* Collection(tokenCollection).Doc(userID).Get(ctx) + DataTo: the token of
\* the document whose ID is the user, NoDoc when absent   main.go:504, 604
TokenOf(store, u) ==
    IF CredsOf(store, u) = {} THEN NoDoc ELSE CHOOSE t \in CredsOf(store, u) : TRUE

\* a Set that adds a document and keeps the one already there
PutTokenKeepOld(store, u, t) == store \cup {[user |-> u, tok |-> t]}

\* Collection(tokenCollection).Doc(userID).Set(ctx, token): the document
\* ID is the user, so a second Set replaces the first         main.go:482
PutToken(store, u, t) == {d \in store : d.user # u} \cup {[user |-> u, tok |-> t]}

\* docRef.Delete(ctx) on a user_tokens document               main.go:638
DeleteToken(store, u) == {d \in store : d.user # u}

\* a link call that reaches every user of the channel
LinkMenuEveryone(m, u, id) == [v \in DOMAIN m |-> id]

\* LinkRichMenuIdToUser(userID, menuID)                  main.go:410, 494, 648
LinkMenu(m, u, id) == [m EXCEPT ![u] = id]

\* a Revoke that always sends the access token
TokenToRevokeAccess(t) == "access"

\* tokenToRevoke: the refresh token when there is one     main.go:617-621
TokenToRevoke(t) == IF t.refresh THEN "refresh" ELSE "access"

\* ------------------------------------------------------------ request slot
IdleSlot ==
    [kind   |-> "none",   \* "callback", "connect", "disconnect", "reconnect"
     pc     |-> "idle",
     user   |-> NoUser,   \* sender of the event / owner read from the state
     nonce  |-> 0,        \* state parameter of the callback / generated nonce
     tok    |-> NoDoc,    \* token exchanged (callback) or loaded (revoke)
     found  |-> FALSE,    \* callback: the state document was read
     late   |-> FALSE,    \* callback: arrived right after a callback that had
                          \* found the state of the same nonce has finished
     over   |-> FALSE,    \* callback: the store replaced an earlier credential
     status |-> 0,        \* callback: HTTP status written
     res    |-> "none",   \* revokeGoogleToken's return: "nil", "notfound", "err"
     remote |-> "none",   \* revoke request: "ok", "rejected", "unreachable"
     sent   |-> "none",   \* token put in the revoke request
     delres |-> "none",   \* local delete of the credential: "ok", "failed"
     reply  |-> "none"]   \* chat reply sent for the event

Free(i) == h[i].pc \in {"idle", "done"}

\* the handler of slot i returns: the slot keeps the request as it ended
\* until the next request takes the slot
Finish(i, rec) == h' = [h EXCEPT ![i] = rec]

InitAuth ==
    /\ states = [n \in Nonces |-> NoUser]
    /\ tokens = {}
    /\ menu = [u \in Users |-> "unset"]
    /\ nextNonce = 1
    /\ nextTok = 1
    /\ h = [i \in Slots |-> IdleSlot]

\* ------------------------------------------------ /connect_drive (118-148)
\* generateState, Set the state document, reply with the authorization URL.
\* A failed Set returns without a reply.
ConnectDrive(i, u) ==
    /\ Free(i)
    /\ nextNonce <= MaxNonce
    /\ nextNonce' = nextNonce + 1
    /\ \/ /\ states' = PutState(states, nextNonce, u)
          /\ Finish(i, [IdleSlot EXCEPT !.kind = "connect", !.pc = "done",
                        !.user = u, !.nonce = nextNonce, !.reply = "auth_link"])
       \/ /\ UNCHANGED states
          /\ Finish(i, [IdleSlot EXCEPT !.kind = "connect", !.pc = "done",
                        !.user = u, !.nonce = nextNonce])
    /\ UNCHANGED <<tokens, menu, nextTok>>
    /\ UNCHANGED otherThanAuth

\* ------------------------------------------- oauthCallbackHandler (448-501)
\* a handler that answers every request with the success page
StatusAlwaysOk(stage) == 200

\* the HTTP status the handler writes: http.StatusBadRequest when the state
\* is not read, http.StatusInternalServerError when the exchange or the
\* Set fails, 200 with the success page          main.go:457, 477, 485, 500
Status(stage) ==
    CASE stage = "state"    -> 400
      [] stage = "exchange" -> 500
      [] stage = "store"    -> 500
      [] OTHER              -> 200

\* the request before, in the same slot, was a callback with this nonce
\* that found the state and has finished
FoundBefore(r, n) == r.kind = "callback" /\ r.pc = "done" /\ r.found /\ r.nonce = n

\* A request arrives with any state parameter, forged ones included.
CallbackStart(i, n) ==
    /\ Free(i)
    /\ h' = [h EXCEPT ![i] = [IdleSlot EXCEPT !.kind = "callback", !.pc = "cb_get",
                  !.nonce = n, !.late = FoundBefore(h[i], n)]]
    /\ UNCHANGED <<states, tokens, menu, nextNonce, nextTok>>
    /\ UNCHANGED otherThanAuth

\* 1. Get the state document; any error answers 400           main.go:454-459
CallbackGetState(i) ==
    /\ h[i].pc = "cb_get"
    /\ \/ /\ states[h[i].nonce] # NoUser
          /\ h' = [h EXCEPT ![i].found = TRUE, ![i].user = StateOwner(states, h[i].nonce),
                            ![i].pc = "cb_exchange"]
       \/ \* document absent, or the read failed
          Finish(i, [h[i] EXCEPT !.status = Status("state"), !.pc = "done"])
    /\ UNCHANGED <<states, tokens, menu, nextNonce, nextTok>>
    /\ UNCHANGED otherThanAuth

\* 2. Exchange the code for a token                           main.go:474-479
CallbackExchange(i) ==
    /\ h[i].pc = "cb_exchange"
    /\ \/ /\ nextTok <= MaxTok
          /\ \E r \in BOOLEAN :
                h' = [h EXCEPT ![i].tok = [id |-> nextTok, refresh |-> r],
                               ![i].pc = "cb_store"]
          /\ nextTok' = nextTok + 1
       \/ /\ h' = [h EXCEPT ![i].status = Status("exchange"), ![i].pc = "cb_defer"]
          /\ UNCHANGED nextTok
    /\ UNCHANGED <<states, tokens, menu, nextNonce>>
    /\ UNCHANGED otherThanAuth

\* 3. Store the token under the user ID                       main.go:482-487
CallbackStoreToken(i) ==
    /\ h[i].pc = "cb_store"
    /\ \/ /\ tokens' = PutToken(tokens, h[i].user, h[i].tok)
          /\ h' = [h EXCEPT ![i].over = (CredsOf(tokens, h[i].user) # {}),
                            ![i].pc = "cb_link"]
       \/ /\ h' = [h EXCEPT ![i].status = Status("store"), ![i].pc = "cb_defer"]
          /\ UNCHANGED tokens
    /\ UNCHANGED <<states, menu, nextNonce, nextTok>>
    /\ UNCHANGED otherThanAuth

\* a handler that gives up when the rich menu cannot be linked
LinkResultFatal(ok, good, bad) == IF ok THEN good ELSE bad

\* if _, err := LinkRichMenuIdToUser(...); err != nil { log.Printf(...) }:
\* the handler goes on with the same outcome        main.go:494-496, 648-650
LinkResult(ok, good, bad) == good

\* 4. Link the main rich menu (failure only logged), write the success page
\*                                                            main.go:490-500
CallbackLinkMenu(i) ==
    /\ h[i].pc = "cb_link"
    /\ \E ok \in BOOLEAN :
          /\ menu' = IF ok THEN LinkMenu(menu, h[i].user, "main") ELSE menu
          /\ h' = [h EXCEPT ![i].status =
                                LinkResult(ok, Status("ok"), Status("store")),
                            ![i].pc = "cb_defer"]
    /\ UNCHANGED <<states, tokens, nextNonce, nextTok>>
    /\ UNCHANGED otherThanAuth

\* defer doc.Ref.Delete(ctx): runs when the handler returns; the error it
\* may return is discarded                                    main.go:461
CallbackDeferredDelete(i) ==
    /\ h[i].pc = "cb_defer"
    /\ \/ states' = DeleteState(states, h[i].nonce)
       \/ UNCHANGED states
    /\ Finish(i, [h[i] EXCEPT !.pc = "done"])
    /\ UNCHANGED <<tokens, menu, nextNonce, nextTok>>
    /\ UNCHANGED otherThanAuth

\* --------------------------------------------- revokeGoogleToken (601-655)
\* /disconnect_drive (284-311) and /reconnect (312-359) both start with it.
RevokeStart(i, u, cmd) ==
    /\ Free(i)
    /\ cmd \in {"disconnect", "reconnect"}
    /\ cmd = "reconnect" => nextNonce <= MaxNonce
    /\ h' = [h EXCEPT ![i] = [IdleSlot EXCEPT !.kind = cmd, !.pc = "rv_get", !.user = u,
                  !.nonce = IF cmd = "reconnect" THEN nextNonce ELSE 0]]
    /\ nextNonce' = IF cmd = "reconnect" THEN nextNonce + 1 ELSE nextNonce
    /\ UNCHANGED <<states, tokens, menu, nextTok>>
    /\ UNCHANGED otherThanAuth

\* 1. Get the token document                                  main.go:603-615
RevokeGetToken(i) ==
    /\ h[i].pc = "rv_get"
    /\ \/ /\ TokenOf(tokens, h[i].user) # NoDoc
          /\ h' = [h EXCEPT ![i].tok = TokenOf(tokens, h[i].user), ![i].pc = "rv_post"]
       \/ /\ TokenOf(tokens, h[i].user) = NoDoc
          /\ h' = [h EXCEPT ![i].res = "notfound", ![i].pc = "rv_return"]
       \/ \* the read failed with another error
          h' = [h EXCEPT ![i].res = "err", ![i].pc = "rv_return"]
    /\ UNCHANGED <<states, tokens, menu, nextNonce, nextTok>>
    /\ UNCHANGED otherThanAuth

\* 2. POST to the revoke endpoint; a transport error returns at once, a
\*    non-200 answer is only logged                           main.go:624-635
RevokePost(i) ==
    /\ h[i].pc = "rv_post"
    /\ \/ h' = [h EXCEPT ![i].remote = "unreachable", ![i].res = "err",
                         ![i].sent = TokenToRevoke(h[i].tok),
                         ![i].pc = "rv_return"]
       \/ \E r \in {"ok", "rejected"} :
             h' = [h EXCEPT ![i].remote = r, ![i].sent = TokenToRevoke(h[i].tok),
                            ![i].pc = "rv_delete"]
    /\ UNCHANGED <<states, tokens, menu, nextNonce, nextTok>>
    /\ UNCHANGED otherThanAuth

\* a Revoke that only logs a failed delete and goes on to the menu
RevokeDeleteTokenLenient(i) ==
    /\ h[i].pc = "rv_delete"
    /\ \/ /\ tokens' = DeleteToken(tokens, h[i].user)
          /\ h' = [h EXCEPT ![i].delres = "ok", ![i].pc = "rv_link"]
       \/ /\ UNCHANGED tokens
          /\ h' = [h EXCEPT ![i].delres = "failed", ![i].pc = "rv_link"]
    /\ UNCHANGED <<states, menu, nextNonce, nextTok>>
    /\ UNCHANGED otherThanAuth

\* 3. Delete the token document                               main.go:637-641
RevokeDeleteToken(i) ==
    /\ h[i].pc = "rv_delete"
    /\ \/ /\ tokens' = DeleteToken(tokens, h[i].user)
          /\ h' = [h EXCEPT ![i].delres = "ok", ![i].pc = "rv_link"]
       \/ /\ UNCHANGED tokens
          /\ h' = [h EXCEPT ![i].delres = "failed", ![i].res = "err",
                            ![i].pc = "rv_return"]
    /\ UNCHANGED <<states, menu, nextNonce, nextTok>>
    /\ UNCHANGED otherThanAuth

\* 4. Link the connect rich menu (failure only logged)        main.go:643-654
RevokeLinkMenu(i) ==
    /\ h[i].pc = "rv_link"
    /\ \E ok \in BOOLEAN :
          /\ menu' = IF ok THEN LinkMenu(menu, h[i].user, "connect") ELSE menu
          /\ h' = [h EXCEPT ![i].res = LinkResult(ok, "nil", "err"),
                            ![i].pc = "rv_return"]
    /\ UNCHANGED <<states, tokens, nextNonce, nextTok>>
    /\ UNCHANGED otherThanAuth

\* a reply text that tells success from failure only
DisconnectReplyTextBlind(res) ==
    IF res = "nil" THEN "disconnected" ELSE "disconnect_error"

\* replyText of /disconnect_drive                             main.go:287-297
DisconnectReplyText(res) ==
    CASE res = "nil"      -> "disconnected"
      [] res = "notfound" -> "not_connected"
      [] OTHER            -> "disconnect_error"

\* /disconnect_drive after revokeGoogleToken returned         main.go:286-311
DisconnectReply(i) ==
    /\ h[i].pc = "rv_return"
    /\ h[i].kind = "disconnect"
    /\ Finish(i, [h[i] EXCEPT !.reply = DisconnectReplyText(h[i].res), !.pc = "done"])
    /\ UNCHANGED <<states, tokens, menu, nextNonce, nextTok>>
    /\ UNCHANGED otherThanAuth

\* a /reconnect that gives up when Revoke failed
RevokeBlocksOnError(res) == res = "err"

\* if err != nil && !errors.Is(err, ErrOauth2TokenNotFound) { log.Printf }:
\* no outcome of Revoke ends /reconnect                      main.go:316-319
RevokeBlocks(res) == FALSE

\* /reconnect after revokeGoogleToken returned: the error is only logged,
\* then the flow of /connect_drive                            main.go:316-358
ReconnectBegin(i) ==
    /\ h[i].pc = "rv_return"
    /\ h[i].kind = "reconnect"
    /\ IF RevokeBlocks(h[i].res)
       THEN /\ UNCHANGED states
            /\ Finish(i, [h[i] EXCEPT !.pc = "done"])
       ELSE \/ /\ states' = PutState(states, h[i].nonce, h[i].user)
               /\ Finish(i, [h[i] EXCEPT !.reply = "reauth_link", !.pc = "done"])
            \/ /\ UNCHANGED states
               /\ Finish(i, [h[i] EXCEPT !.reply = "reconnect_error", !.pc = "done"])
    /\ UNCHANGED <<tokens, menu, nextNonce, nextTok>>
    /\ UNCHANGED otherThanAuth

\* ------------------------------------------------------------ Google Drive
RootId   == 0      \* the parent "root" of findOrCreateFolder   main.go:527
NoId     == 0 - 1  \* no folder resolved yet / empty ID
MainName == "LINE Bot Uploads"                              \* main.go:527

\* time.Now().Format("2006-01")                               main.go:533
MonthName(m) ==
    CASE m = 1 -> "2025-06"
      [] m = 2 -> "2025-07"
      [] m = 3 -> "2025-08"
      [] OTHER -> "2025-09"

\* getRecentFiles(srv, 5)                                     main.go:185
RecentCount == 5

\* Files.List with mimeType = folder, trashed = false, name = '<name>' and
\* '<parent>' in parents: the IDs of the matching folders     main.go:551-552
Matches(its, acct, name, parent) ==
    {f.id : f \in {g \in its : /\ g.acct = acct /\ g.kind = "folder"
                                /\ g.name = name /\ parent \in g.parents}}

\* a folder created at the top of the Drive whatever parent was asked for
NewFolderAtRoot(id, acct, name, parent) ==
    [id |-> id, acct |-> acct, kind |-> "folder", name |-> name, parents |-> {RootId}]

\* Files.Create of a folder with Parents = {parentID}         main.go:563-569
NewFolder(id, acct, name, parent) ==
    [id |-> id, acct |-> acct, kind |-> "folder", name |-> name, parents |-> {parent}]

\* an upload that also files the item under the main folder
UploadParentsBoth(mainFolderID, monthFolderID) == {mainFolderID, monthFolderID}

\* Parents: []string{monthFolderID}                           main.go:540-543
UploadParents(mainFolderID, monthFolderID) == {monthFolderID}

NewFile(id, acct, parents) ==
    [id |-> id, acct |-> acct, kind |-> "file", name |-> "upload", parents |-> parents]

\* a list call that may answer with an empty page though a folder matches
FirstPageMayMiss(found) == found \cup {NoId}

\* PageSize(1) with no OrderBy: the page holds any one of the matching
\* folders, or nothing                                        main.go:552
FirstPage(found) == IF found = {} THEN {NoId} ELSE found

\* a find-or-create that creates whatever the list returned
NeedsCreateAlways(res) == TRUE

\* len(r.Files) > 0 returns the folder found, else it is created
\*                                                            main.go:557-562
NeedsCreate(res) == res = NoId

\* the IDs of S, newest first (IDs grow with the creation time)
RECURSIVE NewestFirst(_)
NewestFirst(S) ==
    IF S = {} THEN <<>>
    ELSE LET mx == CHOOSE x \in S : \A y \in S : y <= x
         IN  <<mx>> \o NewestFirst(S \ {mx})

FirstN(q, n) == SubSeq(q, 1, IF Len(q) < n THEN Len(q) ELSE n)

\* Files.List with '<mainFolderID>' in parents and trashed = false,
\* PageSize(count), OrderBy("createdTime desc")               main.go:586-592
RecentQuery(its, acct, mainFolderID, count) ==
    FirstN(NewestFirst({f.id : f \in {g \in its : g.acct = acct /\ mainFolderID \in g.parents}}),
           count)

\* The folders an account may hold when a run starts: none, the main folder,
\* its month folder, and the same-named siblings that two racing
\* resolutions leave behind (no lock orders list and create).
StartIds == 4
MaxIds   == StartIds + MaxNew
StartTrees ==
    LET f1 == NewFolder(1, 1, MainName, RootId)
        f2 == NewFolder(2, 1, MainName, RootId)
        f3 == NewFolder(3, 1, MonthName(1), 1)
        f4 == NewFolder(4, 1, MonthName(1), 2)
    IN  {{}, {f1}, {f1, f3}, {f1, f2}, {f1, f2, f3}, {f1, f2, f3, f4}}

\* failures of the Drive API and of the token refresh behind it
DriveErrs == {ApiErr(403, <<>>), ApiErr(500, <<>>), PlainErr(<<"x">> \o InvalidGrant)}
\* failures of getGoogleDriveService other than NotFound: the Firestore read,
\* the parse of the document, drive.NewService; the text of the second one
\* holds "invalid_grant"                                     main.go:509-517
StoreErrs == {PlainErr(<<"e", "o", "f">>), PlainErr(InvalidGrant)}

\* no two folders of the account share their name and their parent
NoDupFolders(acct) ==
    \A f, g \in items :
        (/\ f.acct = acct /\ g.acct = acct
         /\ f.kind = "folder" /\ g.kind = "folder"
         /\ f.name = g.name /\ f.parents = g.parents) => f.id = g.id

NoPrev == [user |-> NoUser, mname |-> "", id |-> NoId, calls |-> <<>>, clean |-> FALSE]

IdleReq ==
    [kind    |-> "none",  \* "media", "recent"
     pc      |-> "idle",
     user    |-> NoUser,
     err     |-> NilErr,  \* the error the handler ended with
     mainId  |-> NoId,    \* mainFolderID
     mname   |-> "",      \* monthFolderName
     monthId |-> NoId,    \* monthFolderID
     fileId  |-> NoId,    \* the file created; its view link is its ID
     calls   |-> <<>>,    \* the Drive API calls issued, in order
     listed  |-> <<>>,    \* the files /recent_files shows
     clean   |-> FALSE,   \* no two sibling folders had the same name at the start
     prev    |-> NoPrev,  \* the resolution completed by the request before
     reply   |-> "none"]  \* chat reply sent for the event

Call(op, seg, ok, res) == [op |-> op, seg |-> seg, ok |-> ok, res |-> res]

FreeReq(i) == w[i].pc \in {"idle", "done"}

\* a handler that knows the connect prompt only
FailReplyConnectOnly(e) ==
    IF e = ErrOauth2TokenNotFound THEN "connect_prompt" ELSE "none"

\* the reply a failed media message or /recent_files gets: the connect
\* prompt, the reconnect prompt, or none       main.go:152-182, 186-192, 666-674
FailReply(e) ==
    IF e = ErrOauth2TokenNotFound THEN "connect_prompt"
    ELSE IF IsGoogleAuthError(e) THEN "reconnect_prompt"
    ELSE "none"

\* a handler that ends on every failure without a reply
FailNoReply(i, rec, e) ==
    w' = [w EXCEPT ![i] = [rec EXCEPT !.err = e, !.pc = "done"]]

\* the handler ends with the error e                main.go:152-182, 186-192, 666-674
Fail(i, rec, e) ==
    w' = [w EXCEPT ![i] = [rec EXCEPT !.err = e, !.reply = FailReply(e), !.pc = "done"]]

\* the folder resolution a finished media request leaves to the next one
Resolved(r) ==
    IF r.kind = "media" /\ r.monthId # NoId
    THEN [user |-> r.user, mname |-> r.mname, id |-> r.monthId, calls |-> r.calls,
          clean |-> r.clean]
    ELSE NoPrev

\* an image, video, audio or file message arrives           main.go:391-398
MediaStart(i, u) ==
    /\ FreeReq(i)
    /\ w' = [w EXCEPT ![i] = [IdleReq EXCEPT !.kind = "media", !.pc = "content",
                  !.user = u, !.clean = NoDupFolders(u), !.prev = Resolved(w[i])]]
    /\ UNCHANGED <<items, nextId, month>>
    /\ UNCHANGED otherThanDrv

\* blob.GetMessageContent: a failure returns without a reply  main.go:658-663
MediaGetContent(i) ==
    /\ w[i].pc = "content"
    /\ \/ w' = [w EXCEPT ![i].pc = "service"]
       \/ w' = [w EXCEPT ![i].pc = "done"]
    /\ UNCHANGED <<items, nextId, month>>
    /\ UNCHANGED otherThanDrv

\* a /recent_files text message arrives                       main.go:149-151
RecentStart(i, u) ==
    /\ FreeReq(i)
    /\ w' = [w EXCEPT ![i] = [IdleReq EXCEPT !.kind = "recent", !.pc = "service",
                  !.user = u]]
    /\ UNCHANGED <<items, nextId, month>>
    /\ UNCHANGED otherThanDrv

\* getGoogleDriveService: load the token, build the service   main.go:503-518
GetService(i) ==
    /\ w[i].pc = "service"
    /\ \/ /\ TokenOf(tokens, w[i].user) # NoDoc
          /\ w' = [w EXCEPT ![i].pc = "list_main"]
       \/ /\ TokenOf(tokens, w[i].user) = NoDoc
          /\ Fail(i, w[i], ErrOauth2TokenNotFound)
       \/ \E e \in StoreErrs : Fail(i, w[i], Wrap(e))
    /\ UNCHANGED <<items, nextId, month>>
    /\ UNCHANGED otherThanDrv

\* a /recent_files that resolves the month folder as an upload does
AfterMainToMonth(r, id) ==
    [r EXCEPT !.mainId = id, !.mname = MonthName(month), !.pc = "list_month"]

\* where a handler goes on once the main folder is resolved: uploadToDrive
\* formats the month name, getRecentFiles lists the files  main.go:533, 586
AfterMain(r, id) ==
    IF r.kind = "media"
    THEN [r EXCEPT !.mainId = id, !.mname = MonthName(month), !.pc = "list_month"]
    ELSE [r EXCEPT !.mainId = id, !.pc = "list_files"]

\* the error of findOrCreateFolder as its caller returns it: wrapped by
\* findOrCreateFolder and by uploadToDrive or getRecentFiles
\*                                               main.go:529, 536, 554, 571, 582
FolderErr(e) == Wrap(Wrap(e))

\* findOrCreateFolder(srv, "LINE Bot Uploads", "root"): the list call
\*                                                     main.go:527, 551-560, 579
ListMain(i) ==
    /\ w[i].pc = "list_main"
    /\ \/ \E res \in FirstPage(Matches(items, w[i].user, MainName, RootId)) :
             LET r == [w[i] EXCEPT !.calls = Append(@, Call("list", "main", TRUE, res))]
             IN  w' = [w EXCEPT ![i] = IF NeedsCreate(res)
                                        THEN [r EXCEPT !.pc = "create_main"]
                                        ELSE AfterMain(r, res)]
       \/ \E e \in DriveErrs :
             Fail(i, [w[i] EXCEPT !.calls = Append(@, Call("list", "main", FALSE, NoId))],
                  FolderErr(e))
    /\ UNCHANGED <<items, nextId, month>>
    /\ UNCHANGED otherThanDrv

\* ... and the create call when the list was empty            main.go:562-574
CreateMain(i) ==
    /\ w[i].pc = "create_main"
    /\ \/ /\ nextId <= MaxIds
          /\ items' = items \cup {NewFolder(nextId, w[i].user, MainName, RootId)}
          /\ nextId' = nextId + 1
          /\ w' = [w EXCEPT ![i] =
                    AfterMain([w[i] EXCEPT !.calls = Append(@, Call("create", "main", TRUE, nextId))],
                              nextId)]
       \/ /\ \E e \in DriveErrs :
                Fail(i, [w[i] EXCEPT !.calls = Append(@, Call("create", "main", FALSE, NoId))],
                     FolderErr(e))
          /\ UNCHANGED <<items, nextId>>
    /\ UNCHANGED month
    /\ UNCHANGED otherThanDrv

\* findOrCreateFolder(srv, monthFolderName, mainFolderID): the list call
\*                                                        main.go:534, 551-560
ListMonth(i) ==
    /\ w[i].pc = "list_month"
    /\ \/ \E res \in FirstPage(Matches(items, w[i].user, w[i].mname, w[i].mainId)) :
             LET r == [w[i] EXCEPT !.calls = Append(@, Call("list", "month", TRUE, res))]
             IN  w' = [w EXCEPT ![i] = IF NeedsCreate(res)
                                        THEN [r EXCEPT !.pc = "create_month"]
                                        ELSE [r EXCEPT !.monthId = res, !.pc = "upload"]]
       \/ \E e \in DriveErrs :
             Fail(i, [w[i] EXCEPT !.calls = Append(@, Call("list", "month", FALSE, NoId))],
                  FolderErr(e))
    /\ UNCHANGED <<items, nextId, month>>
    /\ UNCHANGED otherThanDrv

\* a resolution that removes the root folder it created when the creation
\* of the month folder fails
CreateMonthRollsBack(i) ==
    /\ w[i].pc = "create_month"
    /\ \/ /\ nextId <= MaxIds
          /\ items' = items \cup {NewFolder(nextId, w[i].user, w[i].mname, w[i].mainId)}
          /\ nextId' = nextId + 1
          /\ w' = [w EXCEPT ![i].calls = Append(@, Call("create", "month", TRUE, nextId)),
                            ![i].monthId = nextId, ![i].pc = "upload"]
       \/ /\ \E e \in DriveErrs :
                Fail(i, [w[i] EXCEPT !.calls = Append(@, Call("create", "month", FALSE, NoId))],
                     FolderErr(e))
          /\ items' = {f \in items :
                          \A k \in 1..Len(w[i].calls) :
                              ~(/\ w[i].calls[k].op = "create" /\ w[i].calls[k].ok
                                /\ w[i].calls[k].res = f.id)}
          /\ UNCHANGED nextId
    /\ UNCHANGED month
    /\ UNCHANGED otherThanDrv

\* ... and the create call when the list was empty            main.go:562-574
CreateMonth(i) ==
    /\ w[i].pc = "create_month"
    /\ \/ /\ nextId <= MaxIds
          /\ items' = items \cup {NewFolder(nextId, w[i].user, w[i].mname, w[i].mainId)}
          /\ nextId' = nextId + 1
          /\ w' = [w EXCEPT ![i].calls = Append(@, Call("create", "month", TRUE, nextId)),
                            ![i].monthId = nextId, ![i].pc = "upload"]
       \/ /\ \E e \in DriveErrs :
                Fail(i, [w[i] EXCEPT !.calls = Append(@, Call("create", "month", FALSE, NoId))],
                     FolderErr(e))
          /\ UNCHANGED <<items, nextId>>
    /\ UNCHANGED month
    /\ UNCHANGED otherThanDrv

\* an upload that is tried a second time after its first failure
UploadFileRetries(i) ==
    /\ w[i].pc = "upload"
    /\ \/ /\ nextId <= MaxIds
          /\ items' = items \cup
                {NewFile(nextId, w[i].user, UploadParents(w[i].mainId, w[i].monthId))}
          /\ nextId' = nextId + 1
          /\ w' = [w EXCEPT ![i].calls = Append(@, Call("upload", "file", TRUE, nextId)),
                            ![i].fileId = nextId, ![i].reply = "uploaded",
                            ![i].pc = "done"]
       \/ /\ \E e \in DriveErrs :
                IF \E k \in 1..Len(w[i].calls) : w[i].calls[k].op = "upload"
                THEN Fail(i, [w[i] EXCEPT !.calls = Append(@, Call("upload", "file", FALSE, NoId))], e)
                ELSE w' = [w EXCEPT ![i].calls = Append(@, Call("upload", "file", FALSE, NoId))]
          /\ UNCHANGED <<items, nextId>>
    /\ UNCHANGED month
    /\ UNCHANGED otherThanDrv

\* srv.Files.Create(file).Media(content).Do() and the success reply with
\* the file's WebViewLink                                main.go:539-545, 677
UploadFile(i) ==
    /\ w[i].pc = "upload"
    /\ \/ /\ nextId <= MaxIds
          /\ items' = items \cup
                {NewFile(nextId, w[i].user, UploadParents(w[i].mainId, w[i].monthId))}
          /\ nextId' = nextId + 1
          /\ w' = [w EXCEPT ![i].calls = Append(@, Call("upload", "file", TRUE, nextId)),
                            ![i].fileId = nextId, ![i].reply = "uploaded",
                            ![i].pc = "done"]
       \/ /\ \E e \in DriveErrs :
                Fail(i, [w[i] EXCEPT !.calls = Append(@, Call("upload", "file", FALSE, NoId))], e)
          /\ UNCHANGED <<items, nextId>>
    /\ UNCHANGED month
    /\ UNCHANGED otherThanDrv

\* getRecentFiles: the file list under the main folder, then the carousel
\* or the empty-state message                       main.go:585-598, 195-283
ListFiles(i) ==
    /\ w[i].pc = "list_files"
    /\ \/ LET r == RecentQuery(items, w[i].user, w[i].mainId, RecentCount) IN
             w' = [w EXCEPT ![i].calls = Append(@, Call("listfiles", "main", TRUE, NoId)),
                            ![i].listed = r,
                            ![i].reply = IF Len(r) = 0 THEN "empty_state" ELSE "carousel",
                            ![i].pc = "done"]
       \/ \E e \in DriveErrs :
             Fail(i, [w[i] EXCEPT !.calls = Append(@, Call("listfiles", "main", FALSE, NoId))],
                  Wrap(e))
    /\ UNCHANGED <<items, nextId, month>>
    /\ UNCHANGED otherThanDrv

InitDrv ==
    /\ items \in StartTrees
    /\ nextId = StartIds + 1
    /\ month = 1
    /\ w = [i \in Slots |-> IdleReq]

\* no Drive request is in flight and the Drive is empty
IdleDrv ==
    /\ items = {}
    /\ nextId = 1
    /\ month = 1
    /\ w = [i \in Slots |-> IdleReq]

\* the stores when the media and /recent_files requests start: the first
\* user is connected, the others are not, no OAuth handshake is in flight
InitConnected ==
    /\ tokens = {[user |-> 1, tok |-> [id |-> 1, refresh |-> TRUE]]}
    /\ states = [n \in Nonces |-> NoUser]
    /\ menu = [u \in Users |-> "unset"]
    /\ nextNonce = 1
    /\ nextTok = 1
    /\ h = [i \in Slots |-> IdleSlot]

\* the calendar month changes
Tick ==
    /\ month < MaxMonth
    /\ month' = month + 1
    /\ UNCHANGED <<items, nextId, w>>
    /\ UNCHANGED otherThanDrv

\* ------------------------------------------------------ the error classifier
\* error texts: a prefix, a core and a suffix around the place of the token
MsgPrefixes == {<<>>, <<"x">>, <<"i", "n">>}
MsgCores    == {InvalidGrant, SubSeq(InvalidGrant, 1, PatLen - 1),
                <<"i","n","v","a","l","i","d","-","g","r","a","n","t">>, <<>>}
MsgSuffixes == {<<>>, <<"t">>, <<"e", "r", "r">>}
Msgs        == {a \o b \o c : a \in MsgPrefixes, b \in MsgCores, c \in MsgSuffixes}
StatusCodes == {400, 401, 403, 404, 500}
ErrInputs   ==
    {NilErr, ErrOauth2TokenNotFound}
        \cup {ApiErr(c, m) : c \in StatusCodes, m \in Msgs}
        \cup {PlainErr(m) : m \in Msgs}

MaxWrapLen == 20   \* texts are wrapped while they stay this short

InitCls ==
    /\ clsErr \in ErrInputs
    /\ clsOut = "unset"

\* a caller wraps the error before it is classified       main.go:529, 582
ClsWrap ==
    /\ clsOut = "unset"
    /\ clsErr.tag # "nil"
    /\ Len(clsErr.msg) + Len(WrapPrefix) <= MaxWrapLen
    /\ clsErr' = Wrap(clsErr)
    /\ UNCHANGED clsOut
    /\ UNCHANGED otherThanCls

\* the classification that selects the recovery prompt  main.go:177, 188, 670
Classify ==
    /\ clsOut = "unset"
    /\ clsOut' = IF IsGoogleAuthError(clsErr) THEN "AuthRejected" ELSE "Other"
    /\ UNCHANGED clsErr
    /\ UNCHANGED otherThanCls

NextCls == ClsWrap \/ Classify

\* ------------------------------------------------- text messages (117-374)
\* the four command texts, in the order the chain tests them
ConnectText    == "/connect_drive"
RecentText     == "/recent_files"
DisconnectText == "/disconnect_drive"
ReconnectText  == "/reconnect"
Commands == {ConnectText, RecentText, DisconnectText, ReconnectText}

\* message texts: the commands, and texts that only look like one
Texts ==
    Commands \cup {"hello", "/connect_drive now", " /recent_files", "/Reconnect",
                   "/disconnect_drive/reconnect", "connect_drive"}

\* if message.Text == "/connect_drive" {...} else if message.Text ==
\* "/recent_files" {...} else if ... : the branch the chain enters
\*                                               main.go:118, 149, 284, 312
Branch(t) ==
    IF t = ConnectText THEN "connect"
    ELSE IF t = RecentText THEN "recent"
    ELSE IF t = DisconnectText THEN "disconnect"
    ELSE IF t = ReconnectText THEN "reconnect"
    ELSE "none"

\* a chain whose branches fall through to the echo below it
ReturnsNever(b) == FALSE

\* every path through a command branch ends in a return
\*                              main.go:131, 148, 182, 192, 283, 311, 342, 358
Returns(b) == b # "none"

\* the handlers one text message runs: the branch entered, then the echo
\* reply below the chain unless the branch has returned     main.go:118-374
Handlers(t) ==
    (IF Branch(t) = "none" THEN {} ELSE {Branch(t)})
        \cup (IF Returns(Branch(t)) THEN {} ELSE {"echo"})

\* an echo that answers with a fixed text
EchoReplyFixed(t) == "echo"

\* Text: message.Text                                         main.go:366
EchoReply(t) == t

IdleEv ==
    [pc    |-> "idle",    \* "run": being handled, "done": over, "panic"
     user  |-> NoUser,    \* sender
     text  |-> "",        \* message.Text
     acts  |-> {},        \* the handlers the chain runs for the text
     etype |-> "none",    \* dynamic type of the event
     mtype |-> "none",    \* dynamic type of e.Message
     src   |-> "none",    \* dynamic type of e.Source
     rest  |-> <<>>,      \* events of the request the loop has not reached
     reply |-> "none"]    \* the echo reply

IdleTxt == ev = [i \in Slots |-> IdleEv]

\* the command handler of the request in slot i has started / has returned
Started(i)     == h[i].pc # "idle" \/ w[i].pc # "idle"
HandlerDone(i) == h[i].pc = "done" \/ w[i].pc = "done"

\* the request in slot i is over
EvFree(i) ==
    \/ ev[i].pc \in {"idle", "done", "panic"}
    \/ ev[i].pc = "run" /\ "echo" \notin ev[i].acts /\ HandlerDone(i)

\* what a webhook event can be: its type, the type of its message, the
\* type of its source                                      main.go:114-116
EventTypes   == {"message", "follow", "unfollow", "memberJoined", "memberLeft",
                 "beacon"}
MessageTypes == {"text", "sticker", "image", "video", "audio", "file",
                 "location"}
SourceTypes  == {"user", "group", "room"}

\* switch message := e.Message.(type): the case a message content enters.
\* The cases for MemberJoinedEvent, MemberLeftEvent, FollowEvent and
\* BeaconEvent are cases of this switch.                   main.go:116-420
ContentCase(mt) ==
    CASE mt = "text" -> "text"
      [] mt = "sticker" -> "sticker"
      [] mt \in {"image", "video", "audio", "file"} -> "media"
      [] mt \in {"memberJoined", "memberLeft", "beacon"} -> "log"
      [] mt = "follow" -> "follow"
      [] OTHER -> "unsupported"

\* switch e := event.(type): MessageEvent is the only case, every other
\* event goes to the default, which logs                   main.go:114-423
EventCase(et, mt) == IF et = "message" THEN ContentCase(mt) ELSE "unsupported"

\* the handlers an event runs
EventHandlers(et, mt, t) ==
    CASE EventCase(et, mt) = "text" -> Handlers(t)
      [] EventCase(et, mt) \in {"sticker", "media", "follow"} -> {EventCase(et, mt)}
      [] OTHER -> {}

\* the handler function has left the event loop: a command branch ended
\* in its return, or the source assertion panicked
\*                              main.go:131, 148, 182, 192, 283, 311, 342, 358
LoopLeft(i) ==
    \/ ev[i].pc = "panic"
    \/ ev[i].mtype = "text" /\ Returns(Branch(ev[i].text))

\* the webhook request in slot i is over: its last event is handled and
\* the loop has no event left or has been left          main.go:111, 424-426
RequestOver(i) == EvFree(i) /\ (ev[i].rest = <<>> \/ LoopLeft(i))

\* the loop body starts on event e = <<event type, message type, text>>,
\* the events in rest still to come; an event that is only logged is over
\* at once                                                 main.go:111-116
Take(i, u, src, e, rest) ==
    /\ ev' = [ev EXCEPT ![i] =
                [IdleEv EXCEPT !.pc = IF EventHandlers(e[1], e[2], e[3]) = {}
                                       THEN "done" ELSE "run",
                               !.user = u, !.text = e[3],
                               !.acts = EventHandlers(e[1], e[2], e[3]),
                               !.etype = e[1], !.mtype = e[2], !.src = src,
                               !.rest = rest]]
    /\ h' = [h EXCEPT ![i] = IdleSlot]
    /\ w' = [w EXCEPT ![i] = IdleReq]
    /\ UNCHANGED <<states, tokens, menu, nextNonce, nextTok>>
    /\ UNCHANGED <<items, nextId, month>>
    /\ UNCHANGED clsVars

\* a webhook request with one event takes slot i           main.go:98-116
Receive(i, u, src, et, mt, t) ==
    /\ RequestOver(i)
    /\ Take(i, u, src, <<et, mt, t>>, <<>>)

\* a webhook request with the events of batch, in their order, takes slot
\* i: for _, event := range cb.Events                      main.go:98-111
Deliver(i, u, src, batch) ==
    /\ RequestOver(i)
    /\ batch # <<>>
    /\ Take(i, u, src, Head(batch), Tail(batch))

\* the loop goes on to the next event of the request: the body reached its
\* end without a return                                    main.go:111, 424
NextEvent(i) ==
    /\ EvFree(i) /\ ev[i].pc # "idle"
    /\ ev[i].rest # <<>>
    /\ ~LoopLeft(i)
    /\ Take(i, ev[i].user, ev[i].src, Head(ev[i].rest), Tail(ev[i].rest))

\* a webhook request with a text message of user u, sent in the one-to-one
\* chat, takes slot i                                      main.go:111-118
TextMessage(i, u, t) == Receive(i, u, "user", "message", "text", t)

\* e.Source.(webhook.UserSource): a type assertion without the ok result,
\* which panics unless the source is a UserSource
\*                                       main.go:120, 150, 285, 313, 392-398
IsUserSource(src) == src = "user"

\* the handlers that read the sender with that assertion
Asserting == {"connect", "recent", "disconnect", "reconnect", "media"}

\* the request has not entered its command branch yet
AtBranch(i, b) ==
    /\ ev[i].pc = "run" /\ b \in ev[i].acts /\ ~Started(i)
    /\ IsUserSource(ev[i].src)

\* the assertion panics: net/http recovers the panic of the request's
\* goroutine, so the handler is abandoned where it stands
SourcePanic(i) ==
    /\ ev[i].pc = "run" /\ ev[i].acts \cap Asserting # {} /\ ~Started(i)
    /\ ~IsUserSource(ev[i].src)
    /\ ev' = [ev EXCEPT ![i].pc = "panic"]
    /\ UNCHANGED <<authVars, clsVars, drvVars>>

\* the /connect_drive branch                                 main.go:118-148
RunConnect(i) == AtBranch(i, "connect") /\ ConnectDrive(i, ev[i].user)

\* the /recent_files branch                                  main.go:149-283
RunRecent(i) == AtBranch(i, "recent") /\ RecentStart(i, ev[i].user)

\* the /disconnect_drive and /reconnect branches             main.go:284-359
RunRevoke(i) ==
    \E cmd \in {"disconnect", "reconnect"} :
        AtBranch(i, cmd) /\ RevokeStart(i, ev[i].user, cmd)

\* the echo reply below the chain                            main.go:361-374
RunEcho(i) ==
    /\ ev[i].pc = "run"
    /\ "echo" \in ev[i].acts
    /\ ev[i].acts = {"echo"} \/ HandlerDone(i)
    /\ ev' = [ev EXCEPT ![i].reply = EchoReply(ev[i].text), ![i].pc = "done"]
    /\ UNCHANGED <<authVars, clsVars, drvVars>>

\* image, video, audio and file messages                     main.go:391-398
RunMedia(i) == AtBranch(i, "media") /\ MediaStart(i, ev[i].user)

\* a sticker message is answered with the sticker's ids     main.go:375-390
RunSticker(i) ==
    /\ ev[i].pc = "run"
    /\ "sticker" \in ev[i].acts
    /\ ev' = [ev EXCEPT ![i].reply = "sticker_info", ![i].pc = "done"]
    /\ UNCHANGED <<authVars, clsVars, drvVars>>

\* ------------------------------------------------------------ specifications
vars == <<authVars, clsVars, drvVars, txtVars>>

\* requests handled one after another
SeqSlots == {1}

\* the users who send the lifecycle commands: a handler reads and writes
\* only the documents and the menu keyed by its own user, so two senders
\* show every interference between users
SeqUsers == {1, 2}

\* the connection lifecycle, one request at a time: /connect_drive, the
\* OAuth callback, /disconnect_drive and /reconnect
NextSeq ==
    \/ \E i \in SeqSlots, u \in SeqUsers : ConnectDrive(i, u)
    \/ \E i \in SeqSlots, n \in Nonces : CallbackStart(i, n)
    \/ \E i \in SeqSlots : CallbackGetState(i)
    \/ \E i \in SeqSlots : CallbackExchange(i)
    \/ \E i \in SeqSlots : CallbackStoreToken(i)
    \/ \E i \in SeqSlots : CallbackLinkMenu(i)
    \/ \E i \in SeqSlots : CallbackDeferredDelete(i)
    \/ \E i \in SeqSlots, u \in SeqUsers, cmd \in {"disconnect", "reconnect"} :
          RevokeStart(i, u, cmd)
    \/ \E i \in SeqSlots : RevokeGetToken(i)
    \/ \E i \in SeqSlots : RevokePost(i)
    \/ \E i \in SeqSlots : RevokeDeleteToken(i)
    \/ \E i \in SeqSlots : RevokeLinkMenu(i)
    \/ \E i \in SeqSlots : DisconnectReply(i)
    \/ \E i \in SeqSlots : ReconnectBegin(i)

IdleCls == clsErr = NilErr /\ clsOut = "unset"

InitSeq == InitAuth /\ IdleCls /\ IdleDrv /\ IdleTxt

SpecSeq == InitSeq /\ [][NextSeq]_vars

\* the user whose callbacks race
RaceUsers == {1}

\* OAuth callbacks handled concurrently
NextRace ==
    \/ \E i \in Slots, u \in RaceUsers : ConnectDrive(i, u)
    \/ \E i \in Slots, n \in Nonces : CallbackStart(i, n)
    \/ \E i \in Slots : CallbackGetState(i)
    \/ \E i \in Slots : CallbackExchange(i)
    \/ \E i \in Slots : CallbackStoreToken(i)
    \/ \E i \in Slots : CallbackLinkMenu(i)
    \/ \E i \in Slots : CallbackDeferredDelete(i)

SpecRace == InitSeq /\ [][NextRace]_vars

\* the handlers of one user's lifecycle that run side by side, and the user
SyncSlots == {1, 2}

SyncUsers == {1}

\* nobody is connected and every user has the connect rich menu
InitSync ==
    /\ states = [n \in Nonces |-> NoUser]
    /\ tokens = {}
    /\ menu = [u \in Users |-> "connect"]
    /\ nextNonce = 1
    /\ nextTok = 1
    /\ h = [i \in Slots |-> IdleSlot]
    /\ IdleCls /\ IdleDrv /\ IdleTxt

\* the link of slot i reached the LINE platform
Linked(i, id) == menu' = LinkMenu(menu, h[i].user, id)

\* the callback's and Revoke's link steps with a link that succeeds
CallbackLinkMenuOk(i) == CallbackLinkMenu(i) /\ Linked(i, "main")

RevokeLinkMenuOk(i) == RevokeLinkMenu(i) /\ Linked(i, "connect")

\* /connect_drive, the OAuth callback, /disconnect_drive and /reconnect of
\* one user handled concurrently (net/http serves every request in its own
\* goroutine), every LinkRichMenuIdToUser call succeeding
NextSync ==
    \/ \E i \in SyncSlots, u \in SyncUsers : ConnectDrive(i, u)
    \/ \E i \in SyncSlots, n \in Nonces : CallbackStart(i, n)
    \/ \E i \in SyncSlots : CallbackGetState(i)
    \/ \E i \in SyncSlots : CallbackExchange(i)
    \/ \E i \in SyncSlots : CallbackStoreToken(i)
    \/ \E i \in SyncSlots : CallbackLinkMenuOk(i)
    \/ \E i \in SyncSlots : CallbackDeferredDelete(i)
    \/ \E i \in SyncSlots, u \in SyncUsers, cmd \in {"disconnect", "reconnect"} :
          RevokeStart(i, u, cmd)
    \/ \E i \in SyncSlots : RevokeGetToken(i)
    \/ \E i \in SyncSlots : RevokePost(i)
    \/ \E i \in SyncSlots : RevokeDeleteToken(i)
    \/ \E i \in SyncSlots : RevokeLinkMenuOk(i)
    \/ \E i \in SyncSlots : DisconnectReply(i)
    \/ \E i \in SyncSlots : ReconnectBegin(i)

SpecSync == InitSync /\ [][NextSync]_vars

\* isGoogleAuthError applied to every error of ErrInputs, wrapped or not
InitClassifier == InitAuth /\ InitCls /\ IdleDrv /\ IdleTxt

SpecCls == InitClassifier /\ [][NextCls]_vars

\* media messages and /recent_files, one request at a time
NextDrv ==
    \/ \E i \in SeqSlots, u \in Users : MediaStart(i, u)
    \/ \E i \in SeqSlots : MediaGetContent(i)
    \/ \E i \in SeqSlots, u \in Users : RecentStart(i, u)
    \/ \E i \in SeqSlots : GetService(i)
    \/ \E i \in SeqSlots : ListMain(i)
    \/ \E i \in SeqSlots : CreateMain(i)
    \/ \E i \in SeqSlots : ListMonth(i)
    \/ \E i \in SeqSlots : CreateMonth(i)
    \/ \E i \in SeqSlots : UploadFile(i)
    \/ \E i \in SeqSlots : ListFiles(i)
    \/ Tick

InitUploads == InitConnected /\ IdleCls /\ InitDrv /\ IdleTxt

SpecDrv == InitUploads /\ [][NextDrv]_vars

\* text messages, one webhook request at a time
NextText ==
    \/ \E i \in SeqSlots, u \in Users, t \in Texts : TextMessage(i, u, t)
    \/ \E i \in SeqSlots : RunConnect(i)
    \/ \E i \in SeqSlots : RunRecent(i)
    \/ \E i \in SeqSlots : RunRevoke(i)
    \/ \E i \in SeqSlots : RunEcho(i)
    \/ \E i \in SeqSlots : RevokeGetToken(i)
    \/ \E i \in SeqSlots : RevokePost(i)
    \/ \E i \in SeqSlots : RevokeDeleteToken(i)
    \/ \E i \in SeqSlots : RevokeLinkMenu(i)
    \/ \E i \in SeqSlots : DisconnectReply(i)
    \/ \E i \in SeqSlots : ReconnectBegin(i)
    \/ \E i \in SeqSlots : GetService(i)
    \/ \E i \in SeqSlots : ListMain(i)
    \/ \E i \in SeqSlots : CreateMain(i)
    \/ \E i \in SeqSlots : ListFiles(i)

SpecText == InitUploads /\ [][NextText]_vars

\* the two uploads that are handled side by side, and their sender
RaceSlots == {1, 2}

\* the sender is connected and has nothing in the Drive yet
InitFolderRace ==
    /\ InitConnected
    /\ IdleCls /\ IdleTxt
    /\ items = {}
    /\ nextId = StartIds + 1
    /\ month = 1
    /\ w = [i \in Slots |-> IdleReq]

\* the one media message each of the two requests carries
FirstUpload(i, u) == w[i].pc = "idle" /\ MediaStart(i, u)

\* two media messages of the same user handled concurrently (net/http
\* serves each webhook request in its own goroutine)
NextFolderRace ==
    \/ \E i \in RaceSlots, u \in RaceUsers : FirstUpload(i, u)
    \/ \E i \in RaceSlots : MediaGetContent(i)
    \/ \E i \in RaceSlots : GetService(i)
    \/ \E i \in RaceSlots : ListMain(i)
    \/ \E i \in RaceSlots : CreateMain(i)
    \/ \E i \in RaceSlots : ListMonth(i)
    \/ \E i \in RaceSlots : CreateMonth(i)
    \/ \E i \in RaceSlots : UploadFile(i)

SpecFolderRace == InitFolderRace /\ [][NextFolderRace]_vars

\* the events of one webhook request: a text message, a message of
\* another content type, an event that is not a message
EventInputs ==
    {<<"message", "text", t>> : t \in Commands \cup {"hello"}}
        \cup {<<"message", mt, "">> : mt \in MessageTypes \ {"text"}}
        \cup {<<et, "none", "">> : et \in EventTypes \ {"message"}}

\* the sender of the events: the user who is connected at the start
EventUsers == {1}

\* every kind of webhook event from every kind of source, one request at a
\* time
NextEvents ==
    \/ \E i \in SeqSlots, u \in EventUsers, src \in SourceTypes, e \in EventInputs :
          Receive(i, u, src, e[1], e[2], e[3])
    \/ \E i \in SeqSlots : SourcePanic(i)
    \/ \E i \in SeqSlots : RunConnect(i)
    \/ \E i \in SeqSlots : RunRecent(i)
    \/ \E i \in SeqSlots : RunRevoke(i)
    \/ \E i \in SeqSlots : RunEcho(i)
    \/ \E i \in SeqSlots : RunSticker(i)
    \/ \E i \in SeqSlots : RunMedia(i)
    \/ \E i \in SeqSlots : RevokeGetToken(i)
    \/ \E i \in SeqSlots : RevokePost(i)
    \/ \E i \in SeqSlots : RevokeDeleteToken(i)
    \/ \E i \in SeqSlots : RevokeLinkMenu(i)
    \/ \E i \in SeqSlots : DisconnectReply(i)
    \/ \E i \in SeqSlots : ReconnectBegin(i)
    \/ \E i \in SeqSlots : MediaGetContent(i)
    \/ \E i \in SeqSlots : GetService(i)
    \/ \E i \in SeqSlots : ListMain(i)
    \/ \E i \in SeqSlots : CreateMain(i)
    \/ \E i \in SeqSlots : ListMonth(i)
    \/ \E i \in SeqSlots : CreateMonth(i)
    \/ \E i \in SeqSlots : UploadFile(i)
    \/ \E i \in SeqSlots : ListFiles(i)

SpecEvents == InitUploads /\ [][NextEvents]_vars

\* the events a delivery is made of (text messages), and the deliveries:
\* two events of one sender in the one-to-one chat
BatchInputs == {<<"message", "text", t>> : t \in Commands \cup {"hello"}}

BatchLen == 2

Batches == [1..BatchLen -> BatchInputs]

\* webhook requests that carry several events, one request at a time
NextBatch ==
    \/ \E i \in SeqSlots, u \in EventUsers, b \in Batches : Deliver(i, u, "user", b)
    \/ \E i \in SeqSlots : NextEvent(i)
    \/ \E i \in SeqSlots : RunConnect(i)
    \/ \E i \in SeqSlots : RunRecent(i)
    \/ \E i \in SeqSlots : RunRevoke(i)
    \/ \E i \in SeqSlots : RunEcho(i)
    \/ \E i \in SeqSlots : RevokeGetToken(i)
    \/ \E i \in SeqSlots : RevokePost(i)
    \/ \E i \in SeqSlots : RevokeDeleteToken(i)
    \/ \E i \in SeqSlots : RevokeLinkMenu(i)
    \/ \E i \in SeqSlots : DisconnectReply(i)
    \/ \E i \in SeqSlots : ReconnectBegin(i)
    \/ \E i \in SeqSlots : GetService(i)
    \/ \E i \in SeqSlots : ListMain(i)
    \/ \E i \in SeqSlots : CreateMain(i)
    \/ \E i \in SeqSlots : ListFiles(i)

SpecBatch == InitUploads /\ [][NextBatch]_vars

\* ------------------------------------------------------------------ claims

\* C1: single-use state.  Over callbacks handled one after another, a
\* callback that arrives after a callback which had found the state of the
\* same nonce has finished (late) is rejected with 400 and never gets past
\* the state validation (so it stores no credential).
C1_SingleUseState ==
    \A i \in Slots :
        (h[i].kind = "callback" /\ h[i].late /\ h[i].pc # "cb_get")
            => (h[i].pc = "done" /\ ~h[i].found /\ h[i].status = 400)

\* C2: under any interleaving of two concurrently handled callbacks with
\* the same nonce, at most one of them reads the state.
C2_ConsumedOnce ==
    \A i, j \in Slots :
        (/\ i # j
         /\ h[i].kind = "callback" /\ h[j].kind = "callback"
         /\ h[i].pc \notin {"idle", "done"} /\ h[j].pc \notin {"idle", "done"}
         /\ h[i].nonce = h[j].nonce)
            => ~(h[i].found /\ h[j].found)

\* C3: disconnect is unconditional locally.  When Revoke has loaded the
\* credential of its user, the remote revoke failed (non-200 answer or
\* provider not reached) and no local delete failed, Revoke has returned
\* success and no credential is stored for the user.
C3_DisconnectUnconditional ==
    \A i \in Slots :
        (/\ h[i].kind \in {"disconnect", "reconnect"}
         /\ h[i].pc \in {"rv_return", "done"}
         /\ h[i].remote \in {"rejected", "unreachable"}
         /\ h[i].delres # "failed")
            => (h[i].res = "nil" /\ CredsOf(tokens, h[i].user) = {})

\* C4: credential exclusivity.  No user ever has two stored credentials,
\* and once a callback has answered with the success page the credential
\* stored for its user is the one this callback exchanged: a second cycle
\* replaces the credential of the first.
C4_CredentialExclusivity ==
    /\ \A u \in Users : Cardinality(CredsOf(tokens, u)) <= 1
    /\ \A i \in Slots :
          (h[i].kind = "callback" /\ h[i].status = 200)
              => CredsOf(tokens, h[i].user) = {h[i].tok}

\* a second full cycle for the same user has replaced the first credential
C4_Witness ==
    \E i \in Slots :
        /\ h[i].kind = "callback" /\ h[i].pc = "done" /\ h[i].status = 200
        /\ h[i].over
        /\ CredsOf(tokens, h[i].user) = {h[i].tok}

\* ---- folder provisioning and uploads
\* the positions of the calls of kind op for path segment seg
SegCalls(calls, op, seg) ==
    {k \in 1..Len(calls) : calls[k].op = op /\ calls[k].seg = seg}

\* the folders created by a sequence of calls for path segment seg
Created(calls, seg) == {k \in SegCalls(calls, "create", seg) : calls[k].ok}

\* a request that completed the resolution of the path its predecessor
\* had resolved for the same account
SecondResolution(r) ==
    /\ r.kind = "media" /\ r.monthId # NoId
    /\ r.prev.user = r.user /\ r.prev.mname = r.mname

SameFolderNoCreate(r) ==
    /\ r.monthId = r.prev.id
    /\ \A seg \in {"main", "month"} :
          /\ Created(r.calls, seg) = {}
          /\ Cardinality(Created(r.prev.calls, seg)) <= 1

C6_ListThenCreate ==
    \A i \in Slots, seg \in {"main", "month"} :
        LET r        == w[i]
            L        == SegCalls(r.calls, "list", seg)
            C        == SegCalls(r.calls, "create", seg)
            resolved == IF seg = "main" THEN r.mainId ELSE r.monthId
            name     == IF seg = "main" THEN MainName ELSE r.mname
            parent   == IF seg = "main" THEN RootId ELSE r.mainId
            atCreate == r.pc = (IF seg = "main" THEN "create_main" ELSE "create_month")
        IN  /\ Cardinality(L) <= 1
            /\ Cardinality(C) <= 1
            /\ \A c \in C : c - 1 \in L /\ r.calls[c - 1].ok /\ r.calls[c - 1].res = NoId
            /\ \A l \in L :
                  /\ (r.calls[l].ok /\ r.calls[l].res = NoId /\ ~atCreate) => l + 1 \in C
                  /\ r.calls[l].res # NoId =>
                        r.calls[l].res \in Matches(items, r.user, name, parent)
            /\ resolved # NoId =>
                  \E l \in L :
                      /\ r.calls[l].ok
                      /\ IF r.calls[l].res # NoId
                         THEN resolved = r.calls[l].res /\ C = {}
                         ELSE \E c \in C : r.calls[c].ok /\ resolved = r.calls[c].res

\* the main folder exists and the month folder does not: list(main),
\* list(month), create(month), and the new month folder is the result
C6_Witness ==
    \E i \in Slots :
        /\ w[i].kind = "media" /\ Len(w[i].calls) >= 3
        /\ w[i].calls[1].op = "list" /\ w[i].calls[1].seg = "main"
        /\ w[i].calls[1].res # NoId
        /\ w[i].calls[2] = Call("list", "month", TRUE, NoId)
        /\ w[i].calls[3].op = "create" /\ w[i].calls[3].seg = "month"
        /\ w[i].calls[3].ok /\ w[i].monthId = w[i].calls[3].res

\* C7: with no credential stored for the sender, a media message and a
\* /recent_files command are answered with the connect prompt and issue no
\* Drive API call.
C7_NoCredentialNoCall ==
    \A i \in Slots :
        (/\ w[i].kind \in {"media", "recent"} /\ w[i].pc = "done"
         /\ CredsOf(tokens, w[i].user) = {})
            => (w[i].reply = "connect_prompt" /\ w[i].calls = <<>>)

\* C9: every uploaded file has exactly one parent, a month folder that is a
\* child of the main folder; the success reply carries the link of the file
\* created under the month folder the request resolved; a request whose
\* folder resolution failed has created no file.
IsMonthUnderMain(m) ==
    /\ m.kind = "folder"
    /\ \E k \in 1..MaxMonth : m.name = MonthName(k)
    /\ \E r \in items :
          /\ r.kind = "folder" /\ r.acct = m.acct /\ r.name = MainName
          /\ r.parents = {RootId} /\ m.parents = {r.id}

C9_UploadPlacement ==
    /\ \A f \in items :
          f.kind = "file" =>
              /\ Cardinality(f.parents) = 1
              /\ \E m \in items : m.acct = f.acct /\ f.parents = {m.id} /\ IsMonthUnderMain(m)
    /\ \A i \in Slots :
          /\ w[i].reply = "uploaded" =>
                /\ \E f \in items :
                      /\ f.kind = "file" /\ f.id = w[i].fileId /\ f.acct = w[i].user
                      /\ f.parents = {w[i].monthId}
                /\ \E m \in items : m.id = w[i].monthId /\ m.name = w[i].mname
                /\ \E k \in 1..month : w[i].mname = MonthName(k)
          /\ (w[i].kind = "media" /\ w[i].pc = "done" /\ w[i].monthId = NoId) =>
                /\ w[i].fileId = NoId
                /\ SegCalls(w[i].calls, "upload", "file") = {}

\* an upload that had to create the month folder has answered with the link
C9_Witness ==
    \E i \in Slots :
        /\ w[i].reply = "uploaded"
        /\ Created(w[i].calls, "month") # {}
        /\ \E f \in items : f.id = w[i].fileId /\ f.parents = {w[i].monthId}

\* C10: /recent_files shows the most recently uploaded files: when the
\* listing succeeds, every file of the user that is among the RecentCount
\* newest uploads is in the list shown.
C10_RecentShowsUploads ==
    \A i \in Slots :
        (w[i].kind = "recent" /\ w[i].reply \in {"carousel", "empty_state"}) =>
            \A f \in items :
                (/\ f.kind = "file" /\ f.acct = w[i].user
                 /\ Cardinality({g \in items : g.kind = "file" /\ g.acct = f.acct
                                                /\ g.id > f.id}) < RecentCount)
                    => \E k \in 1..Len(w[i].listed) : w[i].listed[k] = f.id

\* the text holds the token "invalid_grant" somewhere
ContainsInvalidGrant(str) ==
    \E k \in 1..Len(str) :
        /\ k + PatLen - 1 <= Len(str)
        /\ \A j \in 1..PatLen : str[k + j - 1] = InvalidGrant[j]

\* C8: the classifier answers AuthRejected exactly when the failure,
\* wrapped or not, is a storage-API error with status 401 or 403, or is not
\* a storage-API error and its text holds "invalid_grant"; everything else
\* (a storage-API error of another status included) is Other.
C8_ClassifierExact ==
    clsOut # "unset" =>
        (clsOut = "AuthRejected"
            <=> \/ clsErr.tag = "api" /\ clsErr.code \in {401, 403}
                \/ clsErr.tag \in {"plain", "notfound"} /\ ContainsInvalidGrant(clsErr.msg))

\* a wrapped non-API error whose text ends with the token is AuthRejected,
\* and so is decided by the last position the scan looks at
C8_Witness ==
    /\ clsOut = "AuthRejected"
    /\ clsErr.tag = "plain"
    /\ Len(clsErr.msg) > PatLen + Len(WrapPrefix)
    /\ SubSeq(clsErr.msg, Len(clsErr.msg) - PatLen + 1, Len(clsErr.msg)) = InvalidGrant
    /\ SubSeq(clsErr.msg, 1, Len(WrapPrefix)) = WrapPrefix

\* ---- text messages
\* the action the fixed priority order selects for a text
PriorityOrder == <<ConnectText, RecentText, DisconnectText, ReconnectText>>
ActionOf      == <<"connect", "recent", "disconnect", "reconnect">>
Chosen(t) ==
    LET hits == {k \in 1..Len(PriorityOrder) : PriorityOrder[k] = t}
    IN  IF hits = {} THEN "echo"
        ELSE ActionOf[CHOOSE k \in hits : \A j \in hits : k <= j]

\* C11: for every text message exactly one of the five actions connect,
\* recent-files, disconnect, reconnect, echo is executed, the one the
\* priority order selects: the chain runs one handler, the handler that has
\* started is that one, and the echo is sent only when it is the one.
C11_OneAction ==
    \A i \in Slots :
        ev[i].pc # "idle" =>
            /\ ev[i].acts = {Chosen(ev[i].text)}
            /\ h[i].kind # "none" => h[i].kind \in ev[i].acts
            /\ w[i].kind # "none" => w[i].kind \in ev[i].acts
            /\ ~(h[i].kind # "none" /\ w[i].kind # "none")
            /\ ev[i].reply # "none" => ("echo" \in ev[i].acts /\ ~Started(i))

\* /recent_files has been handled to its end, and nothing was echoed
C11_Witness ==
    \E i \in Slots :
        /\ ev[i].pc = "run" /\ ev[i].text = RecentText
        /\ w[i].kind = "recent" /\ w[i].pc = "done"
        /\ h[i].kind = "none" /\ ev[i].reply = "none"

\* C12: a text message that is none of the four commands is replied to
\* with exactly the same text, no command handler runs for it, and every
\* step of its handling leaves the credential store, the CSRF state store,
\* the Drive and every user's rich menu unchanged.
C12_EchoVerbatim ==
    [][\A i \in Slots :
          (ev'[i] # ev[i] /\ ev'[i].text \notin Commands) =>
              /\ UNCHANGED <<tokens, states, items, menu>>
              /\ ev'[i].acts = {"echo"}
              /\ h'[i].pc = "idle" /\ w'[i].pc = "idle"
              /\ ev'[i].pc = "done" => ev'[i].reply = ev'[i].text]_vars

\* a text that starts with a command has been echoed as it came
C12_Witness ==
    \E i \in Slots :
        /\ ev[i].pc = "done" /\ ev[i].text = "/connect_drive now"
        /\ ev[i].reply = "/connect_drive now"
        /\ tokens # {}

\* ---- /connect_drive
\* the CSRF state records a step creates or changes
Written == {n \in Nonces : states'[n] # states[n]}

\* the step is the /connect_drive handler of slot i
ConnectStep(i) == h'[i] # h[i] /\ h'[i].kind = "connect"

\* the step creates exactly one state record, the one of the handler's
\* nonce, unused before and now owned by the sender, and the handler
\* replies with the authorization link of that nonce
OneRecordAndLink(i) ==
    /\ Written = {h'[i].nonce}
    /\ states[h'[i].nonce] = NoUser
    /\ states'[h'[i].nonce] = h'[i].user
    /\ h'[i].reply = "auth_link"

WritesCredential(v) ==
    CredsOf(tokens', v) # CredsOf(tokens, v) /\ CredsOf(tokens', v) # {}

\* the step is the successful Set of the callback in slot i
StoreStep(i) ==
    h[i].kind = "callback" /\ h[i].pc = "cb_store" /\ h'[i].pc = "cb_link"

\* C14: a successful OAuth callback persists the credential it exchanged
\* under exactly the user recorded as owner of its nonce and changes no
\* other user's credential; a credential of user v is written only by a
\* callback whose nonce was issued to v.
C14_OwnerBinding ==
    [][/\ \A i \in Slots :
             StoreStep(i) =>
                 /\ states[h[i].nonce] # NoUser
                 /\ CredsOf(tokens', states[h[i].nonce]) = {h[i].tok}
                 /\ \A v \in Users \ {states[h[i].nonce]} :
                       CredsOf(tokens', v) = CredsOf(tokens, v)
       /\ \A v \in Users :
             WritesCredential(v) =>
                 \E i \in Slots : StoreStep(i) /\ states[h[i].nonce] = v]_vars

\* the callback of the second user has succeeded while the first user was
\* connected, and the first user's credential is another one
C14_Witness ==
    \E i \in Slots :
        /\ h[i].kind = "callback" /\ h[i].status = 200 /\ h[i].user = 2
        /\ CredsOf(tokens, 2) = {h[i].tok}
        /\ CredsOf(tokens, 1) # {} /\ CredsOf(tokens, 1) # {h[i].tok}

\* ---- replies of /recent_files and of media messages
\* the failure is classified AuthRejected: a storage-API error with status
\* 401 or 403, or another error whose text holds "invalid_grant"
AuthRejected(e) ==
    \/ e.tag = "api" /\ e.code \in {401, 403}
    \/ e.tag \in {"plain", "notfound"} /\ ContainsInvalidGrant(e.msg)

\* C15: /recent_files selects its reply by the outcome of the credential
\* lookup and of the classification: a lookup that finds no credential
\* gives the connect prompt; a failure classified AuthRejected, raised
\* while obtaining the session (no Drive call issued yet) or while listing,
\* gives the reconnect prompt; the files are listed only when nothing
\* failed.
C15_RecentReply ==
    \A i \in Slots :
        (w[i].kind = "recent" /\ w[i].pc = "done") =>
            /\ w[i].err = ErrOauth2TokenNotFound =>
                  (w[i].reply = "connect_prompt" /\ CredsOf(tokens, w[i].user) = {})
            /\ (w[i].err # ErrOauth2TokenNotFound /\ AuthRejected(w[i].err)) =>
                  w[i].reply = "reconnect_prompt"
            /\ w[i].reply \in {"carousel", "empty_state"} => w[i].err = NilErr
            /\ w[i].reply \in {"connect_prompt", "reconnect_prompt"} =>
                  w[i].listed = <<>>

\* the list of the files was refused with an AuthRejected failure after the
\* main folder had been resolved, and the reconnect prompt was sent
C15_Witness ==
    \E i \in Slots :
        /\ w[i].kind = "recent" /\ w[i].pc = "done"
        /\ w[i].reply = "reconnect_prompt"
        /\ w[i].mainId # NoId
        /\ w[i].calls[Len(w[i].calls)] = Call("listfiles", "main", FALSE, NoId)

\* C16: a media upload that fails with an error classified AuthRejected is
\* answered with the reconnect prompt, one that fails because the lookup
\* finds no credential with the connect prompt, and one that succeeds with
\* the view link of the file created; each of the three replies is sent in
\* its own case only, and a reply is the last thing the handler does, so
\* at most one is sent per media event.
C16_MediaReply ==
    \A i \in Slots :
        w[i].kind = "media" =>
            /\ w[i].reply # "none" => w[i].pc = "done"
            /\ w[i].pc = "done" =>
                  /\ w[i].reply = "uploaded"
                        <=> (w[i].fileId # NoId /\ w[i].err = NilErr)
                  /\ w[i].reply = "connect_prompt"
                        <=> w[i].err = ErrOauth2TokenNotFound
                  /\ w[i].reply = "reconnect_prompt"
                        <=> (w[i].err # ErrOauth2TokenNotFound /\ AuthRejected(w[i].err))
                  /\ w[i].reply \in {"none", "uploaded", "connect_prompt",
                                     "reconnect_prompt"}

\* the upload call itself was refused with an AuthRejected failure after
\* both folders had been resolved, and the reconnect prompt was sent
C16_Witness ==
    \E i \in Slots :
        /\ w[i].kind = "media" /\ w[i].pc = "done"
        /\ w[i].reply = "reconnect_prompt"
        /\ w[i].monthId # NoId /\ w[i].fileId = NoId
        /\ w[i].calls[Len(w[i].calls)] = Call("upload", "file", FALSE, NoId)

\* C17: every failure of an external call met while handling a media
\* message or /recent_files is translated into a chat reply: no handler
\* ends without a reply, and a failure that is neither NoCredential nor
\* AuthRejected gets a reply other than the two prompts.
C17_FailuresReplied ==
    \A i \in Slots :
        (w[i].kind \in {"media", "recent"} /\ w[i].pc = "done") =>
            /\ w[i].reply # "none"
            /\ (/\ w[i].err \notin {NilErr, ErrOauth2TokenNotFound}
                /\ ~AuthRejected(w[i].err))
                  => w[i].reply \notin {"connect_prompt", "reconnect_prompt"}

\* ---- /disconnect_drive and /reconnect
\* C18: /disconnect_drive from a user for whom the lookup finds no
\* credential replies "not connected", sends no revoke request, deletes
\* nothing and leaves the rich menus unchanged (no step of it changes a
\* store or a menu); when Revoke returns success the reply is the
\* disconnection confirmation.
C18_DisconnectReplies ==
    [][\A i \in Slots :
          (h'[i] # h[i] /\ h'[i].kind = "disconnect") =>
              /\ (h'[i].pc = "rv_get" \/ h'[i].res = "notfound") =>
                    UNCHANGED <<tokens, states, menu>>
              /\ h'[i].res = "notfound" =>
                    /\ CredsOf(tokens, h'[i].user) = {}
                    /\ h'[i].remote = "none" /\ h'[i].sent = "none"
                    /\ h'[i].delres = "none"
              /\ h'[i].pc = "done" =>
                    /\ h'[i].res = "notfound" => h'[i].reply = "not_connected"
                    /\ h'[i].res = "nil" =>
                          /\ h'[i].reply = "disconnected"
                          /\ CredsOf(tokens', h'[i].user) = {}]_vars

\* a user who never connected was told so while another user was connected
C18_Witness ==
    \E i \in Slots :
        /\ h[i].kind = "disconnect" /\ h[i].pc = "done"
        /\ h[i].res = "notfound" /\ h[i].reply = "not_connected"
        /\ \E v \in Users \ {h[i].user} : CredsOf(tokens, v) # {} /\ menu[v] = "main"

\* the step is the second half of /reconnect in slot i, after Revoke
ReconnectStep(i) ==
    h[i].kind = "reconnect" /\ h[i].pc = "rv_return" /\ h'[i].pc = "done"

\* C19: /reconnect runs Revoke and then BeginAuthorization: whatever Revoke
\* returned (success, NotFound or another failure), the handler goes on to
\* the state-store write; when the write succeeds exactly one new CSRF
\* state record, owned by the sender, is created and the fresh
\* authorization link of its nonce is the reply; when it fails nothing is
\* created and the reply is the error message.
C19_ReconnectProceeds ==
    [][\A i \in Slots :
          ReconnectStep(i) =>
              /\ h[i].res \in {"nil", "notfound", "err"}
              /\ \/ /\ Written = {h'[i].nonce}
                    /\ states[h'[i].nonce] = NoUser
                    /\ states'[h'[i].nonce] = h'[i].user
                    /\ h'[i].reply = "reauth_link"
                 \/ /\ UNCHANGED states
                    /\ h'[i].reply = "reconnect_error"]_vars

\* Revoke failed on a stored credential (which is therefore still stored)
\* and the new authorization link was sent all the same
C19_Witness ==
    \E i \in Slots :
        /\ h[i].kind = "reconnect" /\ h[i].pc = "done"
        /\ h[i].res = "err" /\ h[i].tok # NoDoc
        /\ h[i].reply = "reauth_link" /\ states[h[i].nonce] = h[i].user
        /\ CredsOf(tokens, h[i].user) = {h[i].tok}

\* the step is one of the OAuth callback in slot i
CallbackStep(i) == h'[i] # h[i] /\ h'[i].kind = "callback"

\* C20: the OAuth callback answers with the success page only if the state
\* was found, the code exchange succeeded and the credential was persisted;
\* it answers 400 when the state is not found and 500 when the exchange or
\* the persistence fails; the only step of a callback that changes the
\* credential store is the successful persist, which leads to the success
\* page, so every failing callback leaves the store unchanged.
C20_CallbackStatus ==
    [][\A i \in Slots :
          CallbackStep(i) =>
              /\ tokens' # tokens => StoreStep(i)
              /\ h'[i].status = 200 =>
                    /\ h'[i].found /\ h'[i].tok # NoDoc
                    /\ h[i].pc \in {"cb_link", "cb_defer"}
                    /\ CredsOf(tokens', h'[i].user) = {h'[i].tok}
              /\ (h[i].status = 0 /\ h'[i].status # 0) =>
                    /\ h[i].pc = "cb_get" =>
                          (h'[i].status = 400 /\ ~h'[i].found /\ UNCHANGED tokens)
                    /\ h[i].pc = "cb_exchange" =>
                          (h'[i].status = 500 /\ h'[i].tok = NoDoc /\ UNCHANGED tokens)
                    /\ h[i].pc = "cb_store" =>
                          (h'[i].status = 500 /\ UNCHANGED tokens)
                    /\ h[i].pc = "cb_link" => h'[i].status = 200
              /\ h'[i].pc \in {"cb_defer", "done"} => h'[i].status \in {200, 400, 500}
              /\ h'[i].status \in {400, 500} => UNCHANGED tokens]_vars

\* the persistence failed for a user who was connected: 500, and the
\* credential stored before is still the one stored
C20_Witness ==
    \E i \in Slots :
        /\ h[i].kind = "callback" /\ h[i].pc = "done" /\ h[i].status = 500
        /\ h[i].found /\ h[i].tok # NoDoc
        /\ CredsOf(tokens, h[i].user) # {}
        /\ h[i].tok \notin CredsOf(tokens, h[i].user)

\* C21: a rich-menu link that fails never changes the outcome of the
\* operation it follows: the callback's link step, whether the link worked
\* or not, leaves the persisted credential stored and is answered with the
\* success page; Revoke's link step, whether the link worked or not, leaves
\* the credential deleted and makes Revoke return nil.
C21_LinkFailureHarmless ==
    [][\A i \in Slots :
          /\ (h[i].pc = "cb_link" /\ h'[i] # h[i]) =>
                /\ h'[i].status = 200
                /\ UNCHANGED tokens
                /\ CredsOf(tokens', h'[i].user) = {h'[i].tok}
                /\ menu' \in {menu, LinkMenu(menu, h[i].user, "main")}
          /\ (h[i].pc = "rv_link" /\ h'[i] # h[i]) =>
                /\ h'[i].res = "nil"
                /\ h[i].delres = "ok"
                /\ UNCHANGED tokens
                /\ CredsOf(tokens', h'[i].user) = {}
                /\ menu' \in {menu, LinkMenu(menu, h[i].user, "connect")}]_vars

\* Revoke deleted the credential and returned nil while its link failed:
\* the user's menu is still the main one that an earlier callback linked
C21_Witness ==
    \E i \in Slots :
        /\ h[i].kind \in {"disconnect", "reconnect"} /\ h[i].pc = "done"
        /\ h[i].delres = "ok" /\ h[i].res = "nil"
        /\ CredsOf(tokens, h[i].user) = {}
        /\ menu[h[i].user] = "main"

\* C22: with every menu link succeeding, whenever no handler is in flight a
\* user's rich menu is the main one exactly if a credential is stored for
\* that user.
C22_MenuSynchronized ==
    (\A i \in SyncSlots : Free(i)) =>
        \A u \in SyncUsers : (menu[u] = "main") <=> (CredsOf(tokens, u) # {})

\* C23: once a follow event has been handled the follower has the connect
\* rich menu, and follow, membership and beacon events get no reply.
C23_FollowSetsMenu ==
    \A i \in Slots :
        (ev[i].pc = "done" /\ ev[i].etype \in EventTypes \ {"message"}) =>
            /\ ev[i].reply = "none"
            /\ ev[i].etype = "follow" => menu[ev[i].user] = "connect"

\* C24: a command or a media message is dispatched whatever the source of
\* the event is: when its request is over, the handler of the command or
\* of the upload has run to its end.
C24_EverySourceDispatched ==
    \A i \in Slots :
        (EvFree(i) /\ ev[i].etype = "message" /\ ev[i].acts \cap Asserting # {}) =>
            /\ ev[i].pc # "panic"
            /\ HandlerDone(i)

\* the documents and the menu of every user other than u are after the
\* step what they were before it
OthersUntouched(u) ==
    \A v \in Users \ {u} :
        /\ CredsOf(tokens', v) = CredsOf(tokens, v)
        /\ menu'[v] = menu[v]
        /\ {n \in Nonces : states'[n] = v} = {n \in Nonces : states[n] = v}

\* C25: every step of a handler that works for user U (a command of U, or
\* the callback of a state of U), successful or not, leaves the credential,
\* the state records and the rich menu of every other user unchanged.
C25_OtherUsersUntouched ==
    [][\A i \in Slots : h'[i] # h[i] => OthersUntouched(h'[i].user)]_vars

\* one user has disconnected (credential deleted, connect menu linked)
\* while another user is still connected with the main menu
C25_Witness ==
    \E i \in Slots :
        /\ h[i].kind = "disconnect" /\ h[i].pc = "done"
        /\ h[i].delres = "ok" /\ menu[h[i].user] = "connect"
        /\ CredsOf(tokens, h[i].user) = {}
        /\ \E v \in Users \ {h[i].user} :
              CredsOf(tokens, v) # {} /\ menu[v] = "main"

\* C26: when the delete of the credential document fails, Revoke returns
\* an error without linking any menu: from the failed delete on, no step of
\* the handler changes the menu or the credential store, Revoke's result
\* is the error, and /disconnect_drive answers with the generic error text.
C26_DeleteFailureReported ==
    [][\A i \in Slots :
          (h'[i] # h[i] /\ h'[i].delres = "failed") =>
              /\ h'[i].kind \in {"disconnect", "reconnect"}
              /\ h'[i].tok # NoDoc
              /\ h'[i].res = "err"
              /\ h'[i].pc \in {"rv_return", "done"}
              /\ UNCHANGED <<menu, tokens>>
              /\ (h'[i].kind = "disconnect" /\ h'[i].pc = "done") =>
                    h'[i].reply = "disconnect_error"]_vars

\* /disconnect_drive of a connected user with the main menu ended with a
\* failed delete: generic error reply, credential and main menu still there
C26_Witness ==
    \E i \in Slots :
        /\ h[i].kind = "disconnect" /\ h[i].pc = "done"
        /\ h[i].delres = "failed" /\ h[i].reply = "disconnect_error"
        /\ CredsOf(tokens, h[i].user) = {h[i].tok}
        /\ menu[h[i].user] = "main"

\* the IDs of the folders a sequence of calls created for a path segment
CreatedIds(calls, seg) == {calls[k].res : k \in Created(calls, seg)}

\* two different folders of one account with the same name and parent
Twins(f, g) ==
    /\ f.id # g.id /\ f.acct = g.acct
    /\ f.kind = "folder" /\ g.kind = "folder"
    /\ f.name = g.name /\ f.parents = g.parents

\* C27: nothing but the race makes the duplicates of two concurrent uploads
\* into an empty Drive: a request goes from its list call to its create
\* call only when no folder matched at the time of the list, and two
\* same-named folders under one parent were created by the two requests,
\* one each.  (That such a state is reachable is C27_Witness.)
C27_DuplicatesByRace ==
    [][/\ \A i \in RaceSlots :
             /\ (w[i].pc = "list_main" /\ w'[i].pc = "create_main") =>
                    Matches(items, w[i].user, MainName, RootId) = {}
             /\ (w[i].pc = "list_month" /\ w'[i].pc = "create_month") =>
                    Matches(items, w[i].user, w[i].mname, w[i].mainId) = {}
       /\ \A f, g \in items' :
             Twins(f, g) =>
                 \E i, j \in RaceSlots, seg \in {"main", "month"} :
                     /\ i # j
                     /\ f.id \in CreatedIds(w'[i].calls, seg)
                     /\ g.id \in CreatedIds(w'[j].calls, seg)]_vars

\* both requests listed the root folder, both got the empty page, and both
\* created it: two "LINE Bot Uploads" folders under the root
C27_Witness ==
    /\ \E f, g \in items : Twins(f, g) /\ f.name = MainName /\ f.parents = {RootId}
    /\ \A i \in RaceSlots :
          /\ \E k \in SegCalls(w[i].calls, "list", "main") :
                w[i].calls[k].ok /\ w[i].calls[k].res = NoId
          /\ Created(w[i].calls, "main") # {}

\* C28: every completed resolution of one folder path of one account
\* returns the same folder IDs, concurrent resolutions included.
C28_FolderIdStable ==
    \A i, j \in RaceSlots :
        (/\ w[i].monthId # NoId /\ w[j].monthId # NoId
         /\ w[i].user = w[j].user /\ w[i].mname = w[j].mname) =>
            (w[i].mainId = w[j].mainId /\ w[i].monthId = w[j].monthId)

\* the list or the create call for the month folder failed
MonthStepFailed(calls) ==
    \E k \in SegCalls(calls, "list", "month") \cup SegCalls(calls, "create", "month") :
        ~calls[k].ok

\* C29: no rollback.  A media request that created the root folder and then
\* failed to find or create the month folder ends with an error, issues no
\* upload call and creates no file, and the root folder it created is still
\* in the account (the program has no call that deletes a Drive item).
C29_NoRollback ==
    \A i \in Slots :
        (/\ w[i].kind = "media"
         /\ Created(w[i].calls, "main") # {}
         /\ MonthStepFailed(w[i].calls)) =>
            /\ w[i].pc = "done" /\ w[i].err # NilErr
            /\ w[i].monthId = NoId /\ w[i].fileId = NoId
            /\ w[i].reply # "uploaded"
            /\ SegCalls(w[i].calls, "upload", "file") = {}
            /\ \A id \in CreatedIds(w[i].calls, "main") :
                  \E f \in items :
                      /\ f.id = id /\ f.acct = w[i].user /\ f.kind = "folder"
                      /\ f.name = MainName /\ f.parents = {RootId}

\* the root folder was created and the creation of the month folder failed
C29_Witness ==
    \E i \in Slots :
        /\ w[i].kind = "media" /\ w[i].pc = "done"
        /\ Created(w[i].calls, "main") # {}
        /\ \E k \in SegCalls(w[i].calls, "create", "month") : ~w[i].calls[k].ok
        /\ \E f \in items : f.id \in CreatedIds(w[i].calls, "main")

\* the Drive API calls a handler can issue: operation and path segment
DriveCalls ==
    {<<"list", "main">>, <<"create", "main">>, <<"list", "month">>,
     <<"create", "month">>, <<"upload", "file">>, <<"listfiles", "main">>}

\* C30: no retry and no state change.  After every step of a media or
\* /recent_files handler the request has issued each of its Drive calls at
\* most once (one file-create call at most for a media event and none for
\* /recent_files, one file-list call at most for /recent_files and none for
\* a media event), and the step, failing or not, has left the credential
\* store as it was.
C30_NoRetryNoStateChange ==
    [][\A i \in Slots :
          w'[i] # w[i] =>
              /\ UNCHANGED tokens
              /\ \A c \in DriveCalls :
                    Cardinality(SegCalls(w'[i].calls, c[1], c[2])) <= 1
              /\ \A k \in 1..Len(w'[i].calls) :
                    <<w'[i].calls[k].op, w'[i].calls[k].seg>> \in DriveCalls
              /\ w'[i].kind = "media" => SegCalls(w'[i].calls, "listfiles", "main") = {}
              /\ w'[i].kind = "recent" => SegCalls(w'[i].calls, "upload", "file") = {}]_vars

\* the one upload call of a media event failed with an AuthRejected error:
\* the request is over and the sender's credential is still stored
C30_Witness ==
    \E i \in Slots :
        /\ w[i].kind = "media" /\ w[i].pc = "done"
        /\ AuthRejected(w[i].err) /\ w[i].reply = "reconnect_prompt"
        /\ Cardinality(SegCalls(w[i].calls, "upload", "file")) = 1
        /\ w[i].fileId = NoId
        /\ CredsOf(tokens, w[i].user) # {}

\* C31: a Revoke that has loaded the stored credential issues exactly one
\* revoke request: the request carries the refresh token if the credential
\* has one and the access token if it has none, it is issued while the
\* credential is still stored and before any delete, no other step of the
\* handler issues a request, and the delete and the return come after it.
C31_RevokeRequest ==
    [][\A i \in Slots :
          (h'[i] # h[i] /\ h'[i].kind \in {"disconnect", "reconnect"}) =>
              /\ h[i].pc = "rv_post" =>
                    /\ h[i].sent = "none" /\ h[i].delres = "none"
                    /\ h'[i].sent = IF h[i].tok.refresh THEN "refresh" ELSE "access"
                    /\ CredsOf(tokens, h[i].user) = {h[i].tok}
                    /\ UNCHANGED tokens
              /\ h[i].pc \in {"rv_get", "rv_delete", "rv_link", "rv_return"} =>
                    h'[i].sent = h[i].sent
              /\ h[i].pc = "rv_delete" => h[i].sent # "none"
              /\ h'[i].delres # "none" => h'[i].sent # "none"
              /\ (h'[i].pc \in {"rv_return", "done"} /\ h'[i].tok # NoDoc) =>
                    h'[i].sent # "none"
              /\ h'[i].tok = NoDoc => h'[i].sent = "none"]_vars

\* a credential without a refresh token was revoked with its access token
\* and then deleted
C31_Witness ==
    \E i \in Slots :
        /\ h[i].kind = "disconnect" /\ h[i].pc = "done"
        /\ ~h[i].tok.refresh /\ h[i].tok # NoDoc
        /\ h[i].sent = "access" /\ h[i].delres = "ok"
        /\ CredsOf(tokens, h[i].user) = {}

\* C32: a callback that found its state and then failed in the code
\* exchange or in the persistence has deleted the state record by the time
\* it has returned, so the nonce finds no record any more.
C32_FailedCallbackConsumes ==
    \A i \in Slots :
        (/\ h[i].kind = "callback" /\ h[i].pc = "done"
         /\ h[i].found /\ h[i].status = 500) =>
            states[h[i].nonce] = NoUser

\* C33: every event of a delivery is dispatched: when the webhook request
\* is over, the loop has reached every event of the batch.
C33_WholeBatchDispatched ==
    \A i \in Slots : RequestOver(i) => ev[i].rest = <<>>

\* the step is one of the /recent_files request in slot i
RecentStep(i) == w'[i] # w[i] /\ w'[i].kind = "recent"

\* C34: /recent_files finds or creates the root folder and nothing else.
\* Its folder list, when it succeeds, leads to the create call exactly if
\* no root folder matched; the only step that changes the Drive is that
\* create, which adds one "LINE Bot Uploads" folder under the root of an
\* account that had none; a request that created the root folder and then
\* listed the files replies with the empty-state message and shows no
\* file; a request that found the root folder changes nothing in the Drive.
C34_RecentFindOrCreate ==
    [][\A i \in Slots :
          RecentStep(i) =>
              /\ (w[i].pc = "list_main" /\ w'[i].pc # "done") =>
                    IF Matches(items, w[i].user, MainName, RootId) = {}
                    THEN w'[i].pc = "create_main"
                    ELSE /\ w'[i].pc = "list_files"
                         /\ w'[i].mainId \in Matches(items, w[i].user, MainName, RootId)
              /\ items' # items =>
                    /\ w[i].pc = "create_main"
                    /\ Matches(items, w[i].user, MainName, RootId) = {}
                    /\ items' = items \cup {NewFolder(nextId, w[i].user, MainName, RootId)}
                    /\ w'[i].mainId = nextId /\ w'[i].pc = "list_files"
              /\ w'[i].pc \in {"service", "list_main", "create_main", "list_files", "done"}
              /\ (w'[i].pc = "done" /\ w'[i].err = NilErr
                    /\ Created(w'[i].calls, "main") # {}) =>
                    (w'[i].reply = "empty_state" /\ w'[i].listed = <<>>)
              /\ w'[i].reply = "carousel" =>
                    (w'[i].listed # <<>> /\ Created(w'[i].calls, "main") = {})
              /\ (\E k \in SegCalls(w'[i].calls, "list", "main") :
                      w'[i].calls[k].ok /\ w'[i].calls[k].res # NoId) =>
                    (UNCHANGED items /\ Created(w'[i].calls, "main") = {})]_vars

\* a connected user without a root folder asked for the recent files: the
\* folder was created and the empty-state message was the reply
C34_Witness ==
    \E i \in Slots :
        /\ w[i].kind = "recent" /\ w[i].pc = "done" /\ w[i].err = NilErr
        /\ Created(w[i].calls, "main") # {}
        /\ w[i].reply = "empty_state"
        /\ \E f \in items : f.id = w[i].mainId /\ f.name = MainName /\ f.parents = {RootId}

====
